---- MODULE Spec2Model ----
(***************************************************************************)
(* BayesianNetworkComponent of src/src/models/bayesian.py: the quantile     *)
(* discretizer and its decoder, the counting estimator of conditional       *)
(* probability tables, the table store with its moving-average update, and  *)
(* the two public operations update_beliefs and predict.                    *)
(*                                                                         *)
(* Numbers are exact rationals <<numerator, denominator>> in lowest terms.  *)
(* The inference library (pgmpy) is outside the repository: the model keeps *)
(* the list of tables bound to the network and whether an engine exists,    *)
(* and a query's answer is an opaque value.                                 *)
(***************************************************************************)
EXTENDS Integers, Sequences, FiniteSets, TLC

VARIABLES
    n_variables,       \* self.n_variables
    structure,         \* self.model's edges: the list handed to BayesianNetwork
    model_nodes,       \* self.model.nodes(), in insertion order
    cpds,              \* self.cpds: node name -> table
    model_cpds,        \* self.model.cpds: the tables bound to the network
    inference_engine,  \* self.inference_engine: "None" or "VariableElimination"
    n_updates,         \* number of _update_cpds runs so far (bounded)
    call,              \* the most recent public call: arguments, locals, outcome
    ref,               \* codec check: the batch under test
    codec              \* codec check: the last discretize / decode result

vars == <<n_variables, structure, model_nodes, cpds, model_cpds, inference_engine,
          n_updates, call, ref, codec>>

-----------------------------------------------------------------------------
(* Bounds of the model *)

MaxRows == 2

MaxVal == 1

MaxUpdates == 2

CodecMaxRows == 3

CodecMaxVal == 2

CodecMaxCols == 1

(* Program constants *)

n_states == 3

n_bins == 3

-----------------------------------------------------------------------------
(* Exact rationals *)

Abs(x) == IF x < 0 THEN -x ELSE x

RECURSIVE GCD(_, _)
GCD(a, b) == IF b = 0 THEN a ELSE GCD(b, a % b)

Rat(n, d) ==
    LET g == GCD(Abs(n), d)
    IN  IF n = 0 THEN <<0, 1>> ELSE <<n \div g, d \div g>>

RAdd(a, b) == Rat(a[1] * b[2] + b[1] * a[2], a[2] * b[2])

RMul(a, b) == Rat(a[1] * b[1], a[2] * b[2])

RLeq(a, b) == a[1] * b[2] <= b[1] * a[2]

RLess(a, b) == a[1] * b[2] < b[1] * a[2]

Zero == <<0, 1>>

One == <<1, 1>>

RECURSIVE RSum(_)
RSum(s) == IF s = <<>> THEN Zero ELSE RAdd(s[1], RSum(Tail(s)))

RECURSIVE Pow(_, _)
Pow(b, e) == IF e = 0 THEN 1 ELSE b * Pow(b, e - 1)

-----------------------------------------------------------------------------
(* An array holds its entries: ndarray(v) is v, evaluated once.             *)
ndarray(v) == IF v = v THEN v ELSE v

-----------------------------------------------------------------------------
(* Batches: a batch is a sequence of rows, a row a sequence of n values.    *)
(* Column j is counted from 0 as in the code.                               *)

Column(data, j) == ndarray([i \in 1..Len(data) |-> data[i][j + 1]])

NCols(data) == Len(data[1])

Shape(data) == <<Len(data), NCols(data)>>

(* The i-th smallest entry (i from 0) of a column: the sorted order that   *)
(* np.quantile works on.                                                    *)
AtMost(col, v) == Cardinality({k \in DOMAIN col : col[k] <= v})

Kth(col, i) ==
    CHOOSE v \in {col[k] : k \in DOMAIN col} :
        /\ AtMost(col, v) >= i + 1
        /\ \A w \in {col[k] : k \in DOMAIN col} : w < v => AtMost(col, w) < i + 1

(* np.quantile(col, k / nb), linear interpolation between order statistics *)
(* at the position (k / nb) * (len - 1).                                    *)
Quantile(col, k, nb) ==
    LET pos == k * (Len(col) - 1)
        lo  == pos \div nb
        fr  == pos % nb
        hi  == IF lo + 1 <= Len(col) - 1 THEN lo + 1 ELSE lo
    IN  Rat(nb * Kth(col, lo) + fr * (Kth(col, hi) - Kth(col, lo)), nb)

(* np.quantile(col, np.linspace(0, 1, nb + 1)): all nb + 1 edges.           *)
BinEdges(col, nb) == ndarray([k \in 1..(nb + 1) |-> Quantile(col, k - 1, nb)])

(* Variant: the cuts taken without the [1:-1] slice, the outer edges kept.  *)
InteriorCuts_AllEdges(col, nb) == BinEdges(col, nb)

(* np.quantile(col, np.linspace(0, 1, nb + 1)[1:-1]): the interior cuts.    *)
InteriorCuts(col, nb) == ndarray([k \in 1..(nb - 1) |-> Quantile(col, k, nb)])

(* np.digitize(x, bins) with right=False: the number of cuts <= x.          *)
Digitize(x, bins) == Cardinality({k \in DOMAIN bins : RLeq(bins[k], x)})

_discretize_data(data, nb) ==
    LET bins == ndarray([j \in 1..NCols(data) |->
                    InteriorCuts(Column(data, j - 1), nb)])
    IN  ndarray([i \in 1..Len(data) |->
            [j \in 1..NCols(data) |->
                Digitize(Rat(data[i][j], 1), bins[j])]])

Mean2(a, b) == RMul(<<1, 2>>, RAdd(a, b))

(* Variant: a state decoded to the upper edge of its bin, not the midpoint. *)
_state_to_continuous_UpperEdge(state, reference_values, nb) ==
    LET bin_edges == BinEdges(reference_values, nb)
    IN  IF state = nb - 1 THEN bin_edges[nb + 1] ELSE bin_edges[state + 2]

_state_to_continuous(state, reference_values, nb) ==
    LET bin_edges == BinEdges(reference_values, nb)
    IN  IF state = 0 THEN Mean2(bin_edges[1], bin_edges[2])
        ELSE IF state = nb - 1 THEN Mean2(bin_edges[nb], bin_edges[nb + 1])
        ELSE Mean2(bin_edges[state + 1], bin_edges[state + 2])

-----------------------------------------------------------------------------
(* Node names.  A name is the character sequence of f'V{i}'.                *)

DigitChars == <<"0", "1", "2", "3", "4", "5", "6", "7", "8", "9">>

RECURSIVE DecimalDigits(_)
DecimalDigits(i) ==
    IF i < 10 THEN <<DigitChars[i + 1]>>
    ELSE DecimalDigits(i \div 10) \o <<DigitChars[(i % 10) + 1]>>

V(i) == <<"V">> \o DecimalDigits(i)

(* int(c) for a one-character string c *)
IntOfChar(c) == CHOOSE d \in 0..9 : DigitChars[d + 1] = c

(* int(node[1]): Python's node[1] is the second character of the name.      *)
NodeColumn(node) == IntOfChar(node[2])

(* structure = [(f'V{i}', f'V{i+1}') for i in range(n_variables-1)]         *)
DefaultStructure(n) == [i \in 1..(n - 1) |-> <<V(i - 1), V(i)>>]

(* BayesianNetwork(structure).nodes(): the nodes in the order the edges     *)
(* introduced them.                                                         *)
RECURSIVE NodesOf(_)
NodesOf(edges) ==
    IF edges = <<>> THEN <<>>
    ELSE LET before == NodesOf(SubSeq(edges, 1, Len(edges) - 1))
             e      == edges[Len(edges)]
             seen   == {before[k] : k \in DOMAIN before}
             withU  == IF e[1] \in seen THEN before ELSE Append(before, e[1])
             seenU  == {withU[k] : k \in DOMAIN withU}
         IN  IF e[2] \in seenU THEN withU ELSE Append(withU, e[2])

Nodes == model_nodes

NodeSet == {Nodes[k] : k \in DOMAIN Nodes}

(* self.model.get_parents(node): the predecessors, in edge order.           *)
RECURSIVE ParentsIn(_, _)
ParentsIn(edges, node) ==
    IF edges = <<>> THEN <<>>
    ELSE IF edges[1][2] = node
         THEN <<edges[1][1]>> \o ParentsIn(Tail(edges), node)
         ELSE ParentsIn(Tail(edges), node)

get_parents(node) == ParentsIn(structure, node)

-----------------------------------------------------------------------------
(* Table estimation *)

(* count / (total + 1e-10).  With total = 0 the count is 0 and the quotient *)
(* is exactly 0; with total >= 1 the quotient is count / total lowered by a *)
(* relative 1e-10 / total, which is below every tolerance used here and is  *)
(* dropped.                                                                 *)
SmoothedRatio(count, total) ==
    IF total = 0 THEN Zero ELSE Rat(count, total)

(* The flat position of a row's parent states in a [3] * k tensor.          *)
RECURSIVE ComboIndex(_, _)
ComboIndex(row, parent_idx) ==
    IF parent_idx = <<>> THEN 0
    ELSE LET k == Len(parent_idx)
         IN  ComboIndex(row, SubSeq(parent_idx, 1, k - 1)) * n_states
                 + row[parent_idx[k] + 1]

JointCount(data, var_idx, parent_idx, combo, s) ==
    Cardinality({i \in 1..Len(data) :
        /\ ComboIndex(data[i], parent_idx) = combo
        /\ data[i][var_idx + 1] = s})

ComboCount(data, parent_idx, combo) ==
    Cardinality({i \in 1..Len(data) : ComboIndex(data[i], parent_idx) = combo})

(* Returns cpt.reshape(-1, n_states): one row per parent combination, one   *)
(* entry per state of the variable.                                         *)
_compute_conditional_probabilities(data, var_idx, parent_idx) ==
    ndarray([r \in 1..Pow(n_states, Len(parent_idx)) |->
        [s \in 1..n_states |->
            SmoothedRatio(JointCount(data, var_idx, parent_idx, r - 1, s - 1),
                          ComboCount(data, parent_idx, r - 1))]])

(* values.T *)
Transpose(m) == ndarray([c \in 1..Len(m[1]) |-> [r \in 1..Len(m) |-> m[r][c]]])

(* np.bincount(values, minlength=3) / len(values), reshaped to (3, 1)       *)
MarginalColumn(data, var_idx) ==
    ndarray([s \in 1..n_states |->
        <<Rat(Cardinality({i \in 1..Len(data) : data[i][var_idx + 1] = s - 1}),
              Len(data))>>])

ParentColumns(parents) == [k \in 1..Len(parents) |-> NodeColumn(parents[k])]

(* TabularCPD(variable, variable_card=3, values, evidence, evidence_card)   *)
TabularCPD(node, values, parents) ==
    [variable |-> node, values |-> values, evidence |-> parents]

(* The table _initialize_cpds builds for one node, and the table that       *)
(* _update_cpds estimates afresh before blending.                           *)
FreshValues(discretized_data, node) ==
    LET parents == get_parents(node)
    IN  IF parents = <<>>
        THEN MarginalColumn(discretized_data, NodeColumn(node))
        ELSE Transpose(_compute_conditional_probabilities(
                 discretized_data, NodeColumn(node), ParentColumns(parents)))

-----------------------------------------------------------------------------
(* The network's table list (pgmpy): add_cpds replaces the table of the     *)
(* same variable or appends; remove_cpds removes the first equal table.     *)

RECURSIVE RemoveFirst(_, _)
RemoveFirst(list, cpd) ==
    IF list = <<>> THEN <<>>
    ELSE IF list[1] = cpd THEN Tail(list)
    ELSE <<list[1]>> \o RemoveFirst(Tail(list), cpd)

remove_cpds(list, cpd) == RemoveFirst(list, cpd)

add_cpds(list, cpd) ==
    ndarray(IF \E k \in DOMAIN list : list[k].variable = cpd.variable
    THEN [k \in DOMAIN list |->
             IF list[k].variable = cpd.variable
                /\ \A m \in 1..(k - 1) : list[m].variable # cpd.variable
             THEN cpd ELSE list[k]]
    ELSE Append(list, cpd))

-----------------------------------------------------------------------------
(* _initialize_cpds *)

RECURSIVE InitLoop(_, _, _)
InitLoop(i, discretized_data, st) ==
    IF i > Len(Nodes) THEN st
    ELSE LET node == Nodes[i]
             cpd  == TabularCPD(node, FreshValues(discretized_data, node),
                                get_parents(node))
         IN  InitLoop(i + 1, discretized_data,
                 [st EXCEPT !.cpds = (node :> cpd) @@ st.cpds,
                            !.model_cpds = add_cpds(st.model_cpds, cpd)])

_initialize_cpds(st, data) ==
    LET discretized_data == _discretize_data(data, n_bins)
        done == InitLoop(1, discretized_data, st)
    IN  [done EXCEPT !.inference_engine = "VariableElimination",
                     !.ran_init = TRUE,
                     !.init_data = discretized_data]

-----------------------------------------------------------------------------
(* _update_cpds *)

(* learning_rate = 0.1, a local of _update_cpds                            *)
learning_rate == <<1, 10>>

(* Variant: the two weights exchanged, lr * old + (1 - lr) * new.           *)
Blend_WeightsSwapped(old, new, lr) ==
    ndarray([r \in 1..Len(old) |->
        [c \in 1..Len(old[r]) |->
            RAdd(RMul(lr, old[r][c]),
                 RMul(RAdd(One, <<-lr[1], lr[2]>>), new[r][c]))]])

(* (1 - lr) * old + lr * new on two matrices of the same shape              *)
Blend(old, new, lr) ==
    ndarray([r \in 1..Len(old) |->
        [c \in 1..Len(old[r]) |->
            RAdd(RMul(RAdd(One, <<-lr[1], lr[2]>>), old[r][c]),
                 RMul(lr, new[r][c]))]])

(* old_cpd.values: pgmpy keeps a table as an array with one axis for the    *)
(* variable and one axis per parent.                                        *)
ValuesShape(cpd) == <<n_states>> \o [k \in 1..Len(cpd.evidence) |-> n_states]

(* The shape of values.T at line 155: _compute_conditional_probabilities    *)
(* returns (3^k, 3) for k parents.                                          *)
TransposedShape(parents) == <<n_states, Pow(n_states, Len(parents))>>

(* numpy's broadcasting rule on two shapes, aligned at the last axis        *)
Broadcastable(a, b) ==
    \A i \in 1..(IF Len(a) < Len(b) THEN Len(a) ELSE Len(b)) :
        LET x == a[Len(a) - i + 1]
            y == b[Len(b) - i + 1]
        IN  x = y \/ x = 1 \/ y = 1

(* The operands of line 155 add up elementwise to a (3, 3^k) matrix that    *)
(* TabularCPD accepts only when old_cpd.values has that very shape;         *)
(* otherwise numpy or TabularCPD raises ValueError.                         *)
BlendRaises(old_cpd, parents) ==
    \/ ~Broadcastable(ValuesShape(old_cpd), TransposedShape(parents))
    \/ ValuesShape(old_cpd) # TransposedShape(parents)

(* One pass of the loop body for one node: the new table, or the raise.     *)
UpdatedCpd(old_cpd, discretized_data, node) ==
    LET parents == get_parents(node)
        fresh   == FreshValues(discretized_data, node)
    IN  IF parents = <<>>
        THEN [raised |-> "none",
              cpd |-> TabularCPD(node, Blend(old_cpd.values, fresh, learning_rate),
                                 <<>>)]
        ELSE IF BlendRaises(old_cpd, parents)
        THEN [raised |-> "ValueError", cpd |-> old_cpd]
        ELSE [raised |-> "none",
              cpd |-> TabularCPD(node, Blend(old_cpd.values, fresh, learning_rate),
                                 parents)]

(* Variant: the store keeps the old table.                                  *)
StoreCpd_Skipped(store, node, new_cpd) == store

(* self.cpds[node] = new_cpd *)
StoreCpd(store, node, new_cpd) == [store EXCEPT ![node] = new_cpd]

RECURSIVE UpdateLoop(_, _, _)
UpdateLoop(i, discretized_data, st) ==
    IF i > Len(Nodes) THEN st
    ELSE LET node    == Nodes[i]
             old_cpd == st.cpds[node]
             step    == UpdatedCpd(old_cpd, discretized_data, node)
         IN  IF step.raised # "none"
             THEN [st EXCEPT !.raised = step.raised]
             ELSE UpdateLoop(i + 1, discretized_data,
                      [st EXCEPT
                          !.model_cpds = add_cpds(remove_cpds(st.model_cpds, old_cpd),
                                                  step.cpd),
                          !.cpds = StoreCpd(st.cpds, node, step.cpd)])

_update_cpds(st, new_data) ==
    LET discretized_data == _discretize_data(new_data, n_bins)
    IN  UpdateLoop(1, discretized_data,
                   [st EXCEPT !.ran_update = TRUE, !.new_data = discretized_data])

-----------------------------------------------------------------------------
(* The public operations *)

NoBeliefs == [node \in {} |-> [query |-> node]]

(* The handler's working state at entry *)
Entry ==
    [cpds |-> cpds, model_cpds |-> model_cpds,
     inference_engine |-> inference_engine,
     raised |-> "none", ran_init |-> FALSE, ran_update |-> FALSE,
     init_data |-> <<>>, new_data |-> <<>>]

CallRecord(op, st, beliefs, shape) ==
    [op |-> op, raised |-> st.raised, ran_init |-> st.ran_init,
     ran_update |-> st.ran_update, init_data |-> st.init_data,
     new_data |-> st.new_data, beliefs |-> beliefs, shape |-> shape]

Commit(st) ==
    /\ cpds' = st.cpds
    /\ model_cpds' = st.model_cpds
    /\ inference_engine' = st.inference_engine
    /\ n_updates' = IF st.ran_update THEN n_updates + 1 ELSE n_updates
    /\ UNCHANGED <<n_variables, structure, model_nodes, ref, codec>>

(* Variant: the initialization runs whether or not an engine exists.        *)
EnsureInitialized_Unguarded(st, data) == _initialize_cpds(st, data)

(* if self.inference_engine is None: self._initialize_cpds(data)            *)
EnsureInitialized(st, data) ==
    IF st.inference_engine = "None" THEN _initialize_cpds(st, data) ELSE st

(* beliefs[node] = self.inference_engine.query([node]).values per node      *)
QueryAll == [node \in NodeSet |-> [query |-> node]]

UpdateBeliefsState(latent, observed, has_observed) ==
    LET s1 == EnsureInitialized(Entry, latent)
    IN  IF has_observed THEN _update_cpds(s1, observed) ELSE s1

(* What predicting variable j of a sample does: the prior branch reads      *)
(* self.cpds[var_name]; the query branch asks the engine about var_name     *)
(* given every other V{m}, which the engine can answer only for nodes of    *)
(* the network.                                                             *)
PredictCell(st, j) ==
    LET var_name == V(j)
        evidence == {V(m) : m \in (0..(n_variables - 1)) \ {j}}
    IN  IF evidence = {}
        THEN IF var_name \in DOMAIN st.cpds THEN "none" ELSE "KeyError"
        ELSE IF ({var_name} \cup evidence) \subseteq NodeSet
             THEN "none" ELSE "OracleError"

RECURSIVE PredictRow(_, _)
PredictRow(st, j) ==
    IF j >= n_variables THEN "none"
    ELSE LET outcome == PredictCell(st, j)
         IN  IF outcome # "none" THEN outcome ELSE PredictRow(st, j + 1)

PredictState(input) ==
    LET s1 == EnsureInitialized(Entry, input)
    IN  [s1 EXCEPT !.raised = PredictRow(s1, 0)]

-----------------------------------------------------------------------------
(* Inputs *)

(* The constructor calls under study: the default chain on one and on two   *)
(* variables, a node with two parents, and a node whose index has two       *)
(* digits.                                                                  *)
Configs ==
    { [n |-> 1, given |-> FALSE, edges |-> <<>>],
      [n |-> 2, given |-> FALSE, edges |-> <<>>],
      [n |-> 3, given |-> TRUE,  edges |-> << <<V(0), V(2)>>, <<V(1), V(2)>> >>],
      [n |-> 11, given |-> TRUE, edges |-> << <<V(1), V(10)>> >>] }

(* The columns of a batch that take every value; the others hold 0.         *)
VaryingColumns(n) == IF n <= 3 THEN 0..(n - 1) ELSE {1, n - 1}

BatchRows(n) ==
    {row \in [1..n -> 0..MaxVal] :
        \A j \in 1..n : (j - 1) \notin VaryingColumns(n) => row[j] = 0}

BatchesOfSize(n) == UNION {[1..r -> BatchRows(n)] : r \in 1..MaxRows}

(* The batches per column count, tabulated once.                            *)
BatchTable == [n \in {cfg.n : cfg \in Configs} |-> BatchesOfSize(n)]

Batches(n) == BatchTable[n]

-----------------------------------------------------------------------------
(* The component *)

IdleCall ==
    [op |-> "none", raised |-> "none", ran_init |-> FALSE, ran_update |-> FALSE,
     init_data |-> <<>>, new_data |-> <<>>, beliefs |-> NoBeliefs, shape |-> <<>>]

IdleCodec == [op |-> "none", raised |-> "none", out |-> <<>>, col |-> 0,
              state |-> 0, value |-> Zero, rebinned |-> 0]

(* __init__ *)
Init ==
    /\ \E cfg \in Configs :
          /\ n_variables = cfg.n
          /\ structure = IF cfg.given THEN cfg.edges ELSE DefaultStructure(cfg.n)
          /\ model_nodes =
                 NodesOf(IF cfg.given THEN cfg.edges ELSE DefaultStructure(cfg.n))
    /\ cpds = NoBeliefs
    /\ model_cpds = <<>>
    /\ inference_engine = "None"
    /\ n_updates = 0
    /\ call = IdleCall
    /\ ref = <<>>
    /\ codec = IdleCodec

(* latent_np is read by the initialization branch alone: once an engine    *)
(* exists every latent batch gives the same step, and one stands for all.   *)
LatentInputs ==
    IF inference_engine = "None" THEN Batches(n_variables)
    ELSE {CHOOSE b \in Batches(n_variables) : TRUE}

(* With an engine present predict changes nothing of the component and its  *)
(* outcome, as far as it is kept here, depends on the input's shape alone:  *)
(* one batch per row count stands for all.                                  *)
PredictInputs ==
    IF inference_engine = "None" THEN Batches(n_variables)
    ELSE {CHOOSE b \in Batches(n_variables) : Len(b) = r : r \in 1..MaxRows}

(* update_beliefs(latent_vectors) *)
UpdateBeliefsLatent ==
    \E latent \in LatentInputs :
        LET st == UpdateBeliefsState(latent, <<>>, FALSE)
        IN  /\ Commit(st)
            /\ call' = CallRecord("update_beliefs", st,
                           IF st.raised = "none" THEN QueryAll ELSE NoBeliefs, <<>>)

(* update_beliefs(latent_vectors, observed_data) *)
UpdateBeliefsObserved ==
    /\ n_updates < MaxUpdates
    /\ \E latent \in LatentInputs, observed \in Batches(n_variables) :
        LET st == UpdateBeliefsState(latent, observed, TRUE)
        IN  /\ Commit(st)
            /\ call' = CallRecord("update_beliefs", st,
                           IF st.raised = "none" THEN QueryAll ELSE NoBeliefs, <<>>)

(* predict(input_data) *)
Predict ==
    \E input \in PredictInputs :
        LET st == PredictState(input)
        IN  /\ Commit(st)
            /\ call' = CallRecord("predict", st, NoBeliefs,
                           IF st.raised = "none" THEN Shape(input) ELSE <<>>)

Next == UpdateBeliefsLatent \/ UpdateBeliefsObserved \/ Predict

Spec == Init /\ [][Next]_vars

-----------------------------------------------------------------------------
(* The discretizer and the decoder on their own: a batch is discretized,    *)
(* and a state decoded against one of its columns is binned again with the  *)
(* cuts of that column.                                                     *)

CodecBatches ==
    UNION {[1..r -> [1..c -> 0..CodecMaxVal]] :
              r \in 1..CodecMaxRows, c \in 1..CodecMaxCols}

(* np.digitize raises ValueError unless bins is monotonic.                  *)
Monotonic(bins) ==
    \/ \A k \in 1..(Len(bins) - 1) : RLeq(bins[k], bins[k + 1])
    \/ \A k \in 1..(Len(bins) - 1) : RLeq(bins[k + 1], bins[k])

DiscretizeRaises(data, nb) ==
    \E j \in 1..NCols(data) : ~Monotonic(InteriorCuts(Column(data, j - 1), nb))

InitCodec ==
    /\ n_variables = 0
    /\ structure = <<>>
    /\ model_nodes = <<>>
    /\ cpds = NoBeliefs
    /\ model_cpds = <<>>
    /\ inference_engine = "None"
    /\ n_updates = 0
    /\ call = IdleCall
    /\ ref \in CodecBatches
    /\ codec = IdleCodec

DiscretizeStep ==
    /\ codec' = [IdleCodec EXCEPT
                    !.op = "discretize",
                    !.raised = IF DiscretizeRaises(ref, n_bins)
                               THEN "ValueError" ELSE "none",
                    !.out = IF DiscretizeRaises(ref, n_bins)
                            THEN <<>> ELSE _discretize_data(ref, n_bins)]
    /\ UNCHANGED <<n_variables, structure, model_nodes, cpds, model_cpds,
                   inference_engine, n_updates, call, ref>>

DecodeStep ==
    \E j \in 0..(NCols(ref) - 1), s \in 0..(n_bins - 1) :
        LET reference_values == Column(ref, j)
            value == _state_to_continuous(s, reference_values, n_bins)
        IN  /\ codec' = [IdleCodec EXCEPT
                            !.op = "decode", !.col = j, !.state = s,
                            !.value = value,
                            !.rebinned = Digitize(value,
                                InteriorCuts(reference_values, n_bins))]
            /\ UNCHANGED <<n_variables, structure, model_nodes, cpds, model_cpds,
                           inference_engine, n_updates, call, ref>>

NextCodec == DiscretizeStep \/ DecodeStep

SpecCodec == InitCodec /\ [][NextCodec]_vars

-----------------------------------------------------------------------------
(* Properties *)

Ready == inference_engine # "None"

VariableNames == {V(i) : i \in 0..(n_variables - 1)}

ColumnSum(values, c) == RSum([r \in 1..Len(values) |-> values[r][c]])

Tolerance == <<1, 1000000>>

WithinTolerance(x, y) ==
    LET d == RAdd(x, <<-y[1], y[2]>>)
    IN  RLeq(<<Abs(d[1]), d[2]>>, Tolerance)

(* C1: in every state with an engine, every column of every stored table    *)
(* sums to 1 within 1e-6, columns of parent states absent from the fitting  *)
(* batch included.                                                          *)
C1_ColumnsSumToOne ==
    Ready =>
        \A node \in DOMAIN cpds :
            \A c \in 1..Len(cpds[node].values[1]) :
                WithinTolerance(ColumnSum(cpds[node].values, c), One)

(* C2: with an engine present, a predict call or an update_beliefs call     *)
(* without observed data does not run the initialization and leaves the     *)
(* stored tables, the network's tables and the engine as they were; the     *)
(* stored tables change only in a call that runs the update.                *)
C2_ReadyCallsKeepTables ==
    [][Ready =>
          /\ (call'.op = "predict" \/ ~call'.ran_update) =>
                /\ ~call'.ran_init
                /\ cpds' = cpds
                /\ model_cpds' = model_cpds
                /\ inference_engine' = inference_engine
          /\ cpds' # cpds => (call'.op = "update_beliefs" /\ call'.ran_update)
      ]_vars

C2_PredictAfterUpdates ==
    /\ Ready
    /\ n_updates > 0
    /\ NodeSet # {}
    /\ call.op = "predict"
    /\ call.raised = "none"
    /\ ~call.ran_init

(* C3: with the default chain structure, an update_beliefs call with latent *)
(* vectors only does not raise and returns one distribution for each of     *)
(* V0 .. V(n_variables-1).                                                  *)
C3_BeliefsForEveryVariable ==
    (/\ structure = DefaultStructure(n_variables)
     /\ call.op = "update_beliefs"
     /\ ~call.ran_update) =>
        /\ call.raised = "none"
        /\ DOMAIN call.beliefs = VariableNames

(* (1 - lr) * old + lr * new as the claims state it *)
ClaimedBlend(old, new, lr) ==
    ndarray([r \in 1..Len(old) |->
        [c \in 1..Len(old[r]) |->
            RAdd(RMul(<<lr[2] - lr[1], lr[2]>>, old[r][c]), RMul(lr, new[r][c]))]])

LearningRates == {<<0, 1>>, <<1, 10>>, <<1, 1>>}

(* The tables an update step starts from: those of the initialization the   *)
(* same call ran, or else the stored ones.                                  *)
TablesBeforeUpdate(node) ==
    IF call'.ran_init THEN FreshValues(call'.init_data, node)
    ELSE cpds[node].values

UpdateStep == n_updates' = n_updates + 1

(* C4 as stated: the learning rate is a parameter of the update, and for    *)
(* each rate lr (0, the default 0.1, 1) an update step leaves every table   *)
(* at (1 - lr) * old + lr * new.                                            *)
C4_AnyLearningRate ==
    [][UpdateStep =>
          \A lr \in LearningRates : \A node \in NodeSet :
              cpds'[node].values =
                  ClaimedBlend(TablesBeforeUpdate(node),
                               FreshValues(call'.new_data, node), lr)
      ]_vars

(* C4 amended: the update has no learning-rate parameter; its rate is the   *)
(* fixed 0.1.  Every table an update step replaces becomes                  *)
(* 0.9 * old + 0.1 * new, new estimated from the discretized new batch as   *)
(* in the initialization, and a step that does not raise replaces every     *)
(* table.                                                                   *)
C4_FixedRateBlend ==
    [][UpdateStep =>
          \A node \in NodeSet :
              LET old     == TablesBeforeUpdate(node)
                  blended == ClaimedBlend(old, FreshValues(call'.new_data, node),
                                          <<1, 10>>)
              IN  IF call'.raised = "none"
                  THEN cpds'[node].values = blended
                  ELSE cpds'[node].values = old \/ cpds'[node].values = blended
      ]_vars

C4_TwoUpdatesDone ==
    /\ n_updates = 2
    /\ call.ran_update
    /\ call.raised = "none"
    /\ \E node \in NodeSet : get_parents(node) # <<>>

MatrixShape(m) == <<Len(m), Len(m[1])>>

(* C5: every stored table has shape (3, 3^k) for a variable with k parents  *)
(* ((3, 1) for a root), after the initialization and after every update     *)
(* step, and the update step completes for every k.                         *)
C5_ShapesKept ==
    Ready =>
        /\ call.ran_update => call.raised = "none"
        /\ \A node \in NodeSet :
               MatrixShape(cpds[node].values)
                   = <<3, Pow(3, Len(get_parents(node)))>>

(* C8: on a single-variable network predict initializes the table of V0,    *)
(* takes the arg-max of that stored table and returns without raising.      *)
C8_SingleVariablePredict ==
    (n_variables = 1 /\ call.op = "predict") =>
        /\ call.raised = "none"
        /\ V(0) \in DOMAIN cpds
        /\ call.shape # <<>>

(* C9: with an engine present the network holds exactly one table per node, *)
(* and it is the table the store holds for that node.                       *)
C9_ModelTablesMatchStore ==
    Ready =>
        /\ DOMAIN cpds = NodeSet
        /\ Len(model_cpds) = Len(Nodes)
        /\ \A node \in NodeSet :
               /\ Cardinality({k \in DOMAIN model_cpds :
                                   model_cpds[k].variable = node}) = 1
               /\ \E k \in DOMAIN model_cpds : model_cpds[k] = cpds[node]

C9_UpdatedNetwork ==
    /\ Ready
    /\ n_updates = 2
    /\ call.ran_update
    /\ NodeSet # {}

(* The number a node name carries after its 'V' *)
RECURSIVE IntOfDigits(_)
IntOfDigits(chars) ==
    IF chars = <<>> THEN 0
    ELSE IntOfDigits(SubSeq(chars, 1, Len(chars) - 1)) * 10
             + IntOfChar(chars[Len(chars)])

NodeNumber(node) == IntOfDigits(Tail(node))

TableFromOwnColumns(discretized_data, node) ==
    LET parents == get_parents(node)
    IN  IF parents = <<>>
        THEN MarginalColumn(discretized_data, NodeNumber(node))
        ELSE Transpose(_compute_conditional_probabilities(
                 discretized_data, NodeNumber(node),
                 [k \in 1..Len(parents) |-> NodeNumber(parents[k])]))

(* C10: the table of node V{i} is estimated from data column i and the      *)
(* columns of its parents' numbers, for every i below n_variables.          *)
C10_TableFromOwnColumn ==
    (call.ran_init /\ ~call.ran_update) =>
        \A node \in NodeSet :
            cpds[node].values = TableFromOwnColumns(call.init_data, node)

(* C6: discretizing a batch does not fail and gives an array of the batch's *)
(* shape with every entry in 0 .. n_bins - 1.                               *)
C6_DiscretizedInRange ==
    codec.op = "discretize" =>
        /\ codec.raised = "none"
        /\ Len(codec.out) = Len(ref)
        /\ \A i \in 1..Len(ref) :
               /\ Len(codec.out[i]) = Len(ref[i])
               /\ \A j \in 1..Len(ref[i]) : codec.out[i][j] \in 0..(n_bins - 1)

ConstantColumn(data, j) == \A i \in 1..Len(data) : data[i][j] = data[1][j]

C6_ConstantColumnDiscretized ==
    /\ codec.op = "discretize"
    /\ Len(ref) >= 2
    /\ ConstantColumn(ref, 1)
    /\ codec.out[1][1] = n_bins - 1

(* C7 as stated: a decoded state is binned to the same state again, for     *)
(* every reference column and every state.                                  *)
C7_RoundTrip ==
    codec.op = "decode" => codec.rebinned = codec.state

(* C7 amended: the decoded value of state s is binned to s again exactly    *)
(* when s is the last state or the two quantile edges that bound bin s      *)
(* differ; when they coincide (a constant or single-row column, repeated    *)
(* values) the decoded value of state 0 or 1 lands in a higher bin.         *)
C7_RoundTripIffEdgesDiffer ==
    codec.op = "decode" =>
        LET edges == BinEdges(Column(ref, codec.col), n_bins)
            s     == codec.state
        IN  /\ (codec.rebinned = s)
                   <=> (s = n_bins - 1 \/ RLess(edges[s + 1], edges[s + 2]))
            /\ codec.rebinned >= s

C7_MiddleStateRoundTrips ==
    /\ codec.op = "decode"
    /\ codec.state = 1
    /\ codec.rebinned = 1

====
